---- MODULE Spec2Model ----
(***************************************************************************)
(* backtor: a shell served over an onion service.                          *)
(*                                                                         *)
(*   src/src/onion_server.rs  onion_service_from_sk (launch, announce      *)
(*                            task, serve task, registry) and              *)
(*                            handle_shell_connection (PTY <-> stream      *)
(*                            bridge of one connection)                    *)
(*   src/src/onion_client.rs  OnionShellClient::connect / run_session      *)
(*                                                                         *)
(* Every async task and every blocking worker is a process with a program  *)
(* counter; one action is one run of a task between two suspension points. *)
(* JoinHandle::abort only requests cancellation: the task is dropped when  *)
(* the runtime next schedules it, and a poll that is in flight on another  *)
(* worker thread runs on until then.                                       *)
(***************************************************************************)
EXTENDS Integers, Sequences, FiniteSets, TLC

(* ------------------------------ bounds -------------------------------- *)
\* services launched in one process (registry scenarios)
NumServices == 2
\* stream requests that reach one service
MaxRequests == 2
\* bytes each endpoint of one server bridge delivers
MaxBytes == 2
\* reads of the operator's stdin in one client session
MaxStdinReads == 2
\* longest chunk one stdin read returns
MaxChunkLen == 2
\* chunks the network delivers to the client
MaxNetReads == 1
\* how far the length of a --key argument is from 64 characters, or from none
MaxKeySlack == 2

(* ------------------------- program constants -------------------------- *)
\* onion_server.rs: const SHELL_PORT: u16 = 23
SHELL_PORT == 23
\* onion_client.rs: const SHELL_PORT: u16 = 22
CLIENT_SHELL_PORT == 22
\* onion_server.rs: tokio::sync::mpsc::channel::<Vec<u8>>(64)
CHANNEL_CAPACITY == 64
\* onion_client.rs: buf[..n].contains(&0x04)
ESCAPE == 4
\* main.rs: let arr: [u8; 32] = bytes.try_into()
KEY_BYTES == 32

Services == 1..NumServices
Reqs == 1..MaxRequests

VARIABLES
    svc,      \* [Services -> the state of one onion_service_from_sk call and its two tasks]
    registry, \* RUNNING_ONION_SERVICES: the mutex and the map it guards
    obs,      \* a caller looking a handle up in the registry
    req,      \* [Reqs -> one incoming stream request and what was invoked on it]
    conn,     \* [Reqs -> the state of one handle_shell_connection call and its four tasks]
    cli,      \* the state of one OnionShellClient::connect call and its two tasks
    proc,     \* the state of main
    goa       \* the state of one get_onion_address call

vars == <<svc, registry, obs, req, conn, cli, proc, goa>>

\* the bytes lo..hi of an endpoint's output, as one chunk
Bytes(lo, hi) == [i \in 1..(hi - lo + 1) |-> lo + i - 1]

(***************************************************************************)
(* handle_shell_connection: one connection of a direct-shell service.      *)
(*   rd   the blocking PTY reader        (spawn_blocking, pty_out_tx)      *)
(*   wr   the blocking PTY writer        (spawn_blocking, stream_in_rx)    *)
(*   s2p  the async task stream_to_pty   (stream_read, stream_in_tx)       *)
(*   p2s  the async task pty_to_stream   (pty_out_rx, stream_write)        *)
(* Bytes are numbered in the order the endpoint delivers them, so a chunk  *)
(* is the sequence of the numbers of its bytes.                            *)
(***************************************************************************)
ConnInit ==
    [ hpc        |-> "none",   \* none, start, select, returned
      outcome    |-> "none",   \* how the synchronous prologue ended
      child      |-> "none",   \* none, running, killed
      spawned    |-> 0,        \* shells spawn_command has created
      sel        |-> "none",   \* the select! branch that completed
      rd         |-> "none",   \* none, read, send, done
      rdBuf      |-> <<>>,
      wr         |-> "none",   \* none, recv, write, done
      wrBuf      |-> <<>>,
      s2p        |-> "none",   \* none, read, send, done, aborted
      s2pBuf     |-> <<>>,
      s2pAbort   |-> FALSE,    \* stream_to_pty.abort() was called
      p2s        |-> "none",   \* none, recv, write, flush, done, aborted
      p2sBuf     |-> <<>>,
      p2sAbort   |-> FALSE,    \* pty_to_stream.abort() was called
      ptyOut     |-> <<>>,     \* the pty_out channel: chunks PTY -> stream
      streamIn   |-> <<>>,     \* the stream_in channel: chunks stream -> PTY
      ptyRead    |-> 0,        \* bytes read from the PTY so far
      netRead    |-> 0,        \* bytes read from the network stream so far
      netWritten |-> <<>>,     \* bytes written to the network stream
      netFlushed |-> 0,        \* how many of them a flush has covered
      netFail    |-> FALSE,    \* a write_all or a flush of pty_to_stream failed
      ptyWritten |-> <<>>,     \* bytes written to the PTY
      ptyEnd     |-> FALSE,    \* the PTY reader saw Ok(0) or Err
      netEnd     |-> FALSE ]   \* stream_to_pty saw Ok(0) or Err

\* a channel end is dropped when the task that owns it has finished
PtyOutTxDropped(k) == k.rd = "done"
PtyOutRxDropped(k) == k.p2s \in {"done", "aborted"}
StreamInTxDropped(k) == k.s2p \in {"done", "aborted"}
StreamInRxDropped(k) == k.wr = "done"

Finished(pc) == pc \in {"done", "aborted"}

Others == UNCHANGED <<svc, registry, obs, req, cli, proc, goa>>

\* lines 98-212: everything up to the select! runs without a suspension point
handle_shell_connection_start(c) ==
    /\ conn[c].hpc = "start"
    /\ \E o \in {"openpty_failed", "spawn_failed", "reader_failed", "writer_failed", "ok"} :
         conn' = [conn EXCEPT ![c] =
            IF o \in {"openpty_failed", "spawn_failed"}
              THEN [@ EXCEPT !.hpc = "returned", !.outcome = o]
            ELSE IF o \in {"reader_failed", "writer_failed"}
              THEN [@ EXCEPT !.hpc = "returned", !.outcome = o, !.child = "killed",
                             !.spawned = @ + 1]
            ELSE [@ EXCEPT !.hpc = "select", !.outcome = o, !.child = "running",
                           !.spawned = @ + 1,
                           !.rd = "read", !.wr = "recv", !.s2p = "read", !.p2s = "recv"]]
    /\ Others

\* a bridge that waits for both directions before it returns
handle_shell_connection_join(c) ==
    /\ conn[c].hpc = "select"
    /\ conn[c].p2s = "done"
    /\ conn[c].s2p = "done"
    /\ conn' = [conn EXCEPT ![c] =
          [@ EXCEPT !.hpc = "returned", !.sel = "pty_to_stream", !.s2pAbort = TRUE,
                    !.child = "killed"]]
    /\ Others

\* a handler that returns without killing the shell
handle_shell_connection_select_no_kill(c) ==
    /\ conn[c].hpc = "select"
    /\ \/ /\ conn[c].p2s = "done"
          /\ conn' = [conn EXCEPT ![c] =
                [@ EXCEPT !.hpc = "returned", !.sel = "pty_to_stream", !.s2pAbort = TRUE]]
       \/ /\ conn[c].s2p = "done"
          /\ conn' = [conn EXCEPT ![c] =
                [@ EXCEPT !.hpc = "returned", !.sel = "stream_to_pty", !.p2sAbort = TRUE]]
    /\ Others

\* lines 215-232: select! on the two JoinHandles, abort the sibling, kill, return
handle_shell_connection_select(c) ==
    /\ conn[c].hpc = "select"
    /\ \/ /\ conn[c].p2s = "done"
          /\ conn' = [conn EXCEPT ![c] =
                [@ EXCEPT !.hpc = "returned", !.sel = "pty_to_stream",
                          !.s2pAbort = TRUE, !.child = "killed"]]
       \/ /\ conn[c].s2p = "done"
          /\ conn' = [conn EXCEPT ![c] =
                [@ EXCEPT !.hpc = "returned", !.sel = "stream_to_pty",
                          !.p2sAbort = TRUE, !.child = "killed"]]
    /\ Others

\* lines 159-160: pty_reader.read returns Ok(0) or Err
pty_reader_eof(c) ==
    /\ conn[c].rd = "read"
    /\ conn' = [conn EXCEPT ![c] = [@ EXCEPT !.rd = "done", !.ptyEnd = TRUE]]
    /\ Others

\* lines 159-161: pty_reader.read returns Ok(n), n > 0
pty_reader_read(c, lim) ==
    /\ conn[c].rd = "read"
    /\ conn[c].ptyRead < lim
    /\ \E n \in 1..(lim - conn[c].ptyRead) :
         conn' = [conn EXCEPT ![c] =
            [@ EXCEPT !.rd = "send",
                      !.rdBuf = Bytes(conn[c].ptyRead + 1, conn[c].ptyRead + n),
                      !.ptyRead = @ + n]]
    /\ Others

\* a send that gives up on a full queue (try_send) and goes on reading
pty_reader_try_send(c) ==
    /\ conn[c].rd = "send"
    /\ IF PtyOutRxDropped(conn[c])
         THEN conn' = [conn EXCEPT ![c] = [@ EXCEPT !.rd = "done", !.rdBuf = <<>>]]
       ELSE IF Len(conn[c].ptyOut) < CHANNEL_CAPACITY
         THEN conn' = [conn EXCEPT ![c] =
                    [@ EXCEPT !.rd = "read", !.ptyOut = Append(@, conn[c].rdBuf),
                              !.rdBuf = <<>>]]
       ELSE conn' = [conn EXCEPT ![c] = [@ EXCEPT !.rd = "read", !.rdBuf = <<>>]]
    /\ Others

\* lines 162-164: pty_out_tx.blocking_send
pty_reader_send(c) ==
    /\ conn[c].rd = "send"
    /\ IF PtyOutRxDropped(conn[c])
         THEN conn' = [conn EXCEPT ![c] = [@ EXCEPT !.rd = "done", !.rdBuf = <<>>]]
         ELSE /\ Len(conn[c].ptyOut) < CHANNEL_CAPACITY
              /\ conn' = [conn EXCEPT ![c] =
                    [@ EXCEPT !.rd = "read", !.ptyOut = Append(@, conn[c].rdBuf),
                              !.rdBuf = <<>>]]
    /\ Others

\* a channel that reports the end as soon as its sender is gone, with
\* chunks still queued
pty_to_stream_closed_early(c) ==
    /\ conn[c].p2s = "recv"
    /\ PtyOutTxDropped(conn[c])
    /\ conn' = [conn EXCEPT ![c] = [@ EXCEPT !.p2s = "done"]]
    /\ Others

\* line 203: pty_out_rx.recv() returns None
pty_to_stream_closed(c) ==
    /\ conn[c].p2s = "recv"
    /\ conn[c].ptyOut = <<>>
    /\ PtyOutTxDropped(conn[c])
    /\ conn' = [conn EXCEPT ![c] = [@ EXCEPT !.p2s = "done"]]
    /\ Others

\* a queue that hands out its newest chunk
pty_to_stream_recv_newest(c) ==
    /\ conn[c].p2s = "recv"
    /\ conn[c].ptyOut # <<>>
    /\ conn' = [conn EXCEPT ![c] =
          [@ EXCEPT !.p2s = "write", !.p2sBuf = conn[c].ptyOut[Len(conn[c].ptyOut)],
                    !.ptyOut = SubSeq(@, 1, Len(@) - 1)]]
    /\ Others

\* line 203: pty_out_rx.recv() returns Some(data)
pty_to_stream_recv(c) ==
    /\ conn[c].p2s = "recv"
    /\ conn[c].ptyOut # <<>>
    /\ conn' = [conn EXCEPT ![c] =
          [@ EXCEPT !.p2s = "write", !.p2sBuf = Head(conn[c].ptyOut), !.ptyOut = Tail(@)]]
    /\ Others

\* lines 204-206: stream_write.write_all; a failed write_all may have written a part
pty_to_stream_write(c) ==
    /\ conn[c].p2s = "write"
    /\ \/ conn' = [conn EXCEPT ![c] =
             [@ EXCEPT !.p2s = "flush", !.netWritten = @ \o conn[c].p2sBuf, !.p2sBuf = <<>>]]
       \/ \E n \in 0..(Len(conn[c].p2sBuf) - 1) :
            conn' = [conn EXCEPT ![c] =
               [@ EXCEPT !.p2s = "done", !.netFail = TRUE,
                         !.netWritten = @ \o SubSeq(conn[c].p2sBuf, 1, n),
                         !.p2sBuf = <<>>]]
    /\ Others

\* lines 207-209: stream_write.flush
pty_to_stream_flush(c) ==
    /\ conn[c].p2s = "flush"
    /\ \/ conn' = [conn EXCEPT ![c] =
             [@ EXCEPT !.p2s = "recv", !.netFlushed = Len(conn[c].netWritten)]]
       \/ conn' = [conn EXCEPT ![c] = [@ EXCEPT !.p2s = "done", !.netFail = TRUE]]
    /\ Others

\* pty_to_stream.abort() takes effect: the runtime drops the task; a
\* write_all it was in may have written a part
pty_to_stream_cancelled(c) ==
    /\ conn[c].p2sAbort
    /\ conn[c].p2s \in {"recv", "write", "flush"}
    /\ \E n \in 0..(IF conn[c].p2s = "write" THEN Len(conn[c].p2sBuf) - 1 ELSE 0) :
         conn' = [conn EXCEPT ![c] =
            [@ EXCEPT !.p2s = "aborted",
                      !.netWritten = @ \o SubSeq(conn[c].p2sBuf, 1, n),
                      !.p2sBuf = <<>>]]
    /\ Others

\* lines 189-190: stream_read.read returns Ok(0) or Err
stream_to_pty_eof(c) ==
    /\ conn[c].s2p = "read"
    /\ conn' = [conn EXCEPT ![c] = [@ EXCEPT !.s2p = "done", !.netEnd = TRUE]]
    /\ Others

\* lines 189-191: stream_read.read returns Ok(n), n > 0
stream_to_pty_read(c, lim) ==
    /\ conn[c].s2p = "read"
    /\ conn[c].netRead < lim
    /\ \E n \in 1..(lim - conn[c].netRead) :
         conn' = [conn EXCEPT ![c] =
            [@ EXCEPT !.s2p = "send",
                      !.s2pBuf = Bytes(conn[c].netRead + 1, conn[c].netRead + n),
                      !.netRead = @ + n]]
    /\ Others

\* lines 192-194: stream_in_tx.send
stream_to_pty_send(c) ==
    /\ conn[c].s2p = "send"
    /\ IF StreamInRxDropped(conn[c])
         THEN conn' = [conn EXCEPT ![c] = [@ EXCEPT !.s2p = "done", !.s2pBuf = <<>>]]
         ELSE /\ Len(conn[c].streamIn) < CHANNEL_CAPACITY
              /\ conn' = [conn EXCEPT ![c] =
                    [@ EXCEPT !.s2p = "read", !.streamIn = Append(@, conn[c].s2pBuf),
                              !.s2pBuf = <<>>]]
    /\ Others

\* stream_to_pty.abort() takes effect: the runtime drops the task
stream_to_pty_cancelled(c) ==
    /\ conn[c].s2pAbort
    /\ conn[c].s2p \in {"read", "send"}
    /\ conn' = [conn EXCEPT ![c] = [@ EXCEPT !.s2p = "aborted", !.s2pBuf = <<>>]]
    /\ Others

\* line 174: stream_in_rx.blocking_recv() returns None
pty_writer_closed(c) ==
    /\ conn[c].wr = "recv"
    /\ conn[c].streamIn = <<>>
    /\ StreamInTxDropped(conn[c])
    /\ conn' = [conn EXCEPT ![c] = [@ EXCEPT !.wr = "done"]]
    /\ Others

\* line 174: stream_in_rx.blocking_recv() returns Some(data)
pty_writer_recv(c) ==
    /\ conn[c].wr = "recv"
    /\ conn[c].streamIn # <<>>
    /\ conn' = [conn EXCEPT ![c] =
          [@ EXCEPT !.wr = "write", !.wrBuf = Head(conn[c].streamIn), !.streamIn = Tail(@)]]
    /\ Others

\* lines 175-178: pty_writer.write_all, then a flush whose result is dropped
pty_writer_write(c) ==
    /\ conn[c].wr = "write"
    /\ \/ conn' = [conn EXCEPT ![c] =
             [@ EXCEPT !.wr = "recv", !.ptyWritten = @ \o conn[c].wrBuf, !.wrBuf = <<>>]]
       \/ \E n \in 0..(Len(conn[c].wrBuf) - 1) :
            conn' = [conn EXCEPT ![c] =
               [@ EXCEPT !.wr = "done",
                         !.ptyWritten = @ \o SubSeq(conn[c].wrBuf, 1, n),
                         !.wrBuf = <<>>]]
    /\ Others

\* the steps of a connection that move no data: the handler, the ends of
\* the two endpoints, the closing of the channels, the cancellations
ConnControl(c) ==
    \/ handle_shell_connection_start(c)
    \/ handle_shell_connection_select(c)
    \/ pty_reader_eof(c)
    \/ pty_to_stream_closed(c)
    \/ pty_to_stream_cancelled(c)
    \/ stream_to_pty_eof(c)
    \/ stream_to_pty_cancelled(c)
    \/ pty_writer_closed(c)

\* the steps that move data, with at most lim bytes from each endpoint
ConnData(c, lim) ==
    \/ pty_reader_read(c, lim)
    \/ pty_reader_send(c)
    \/ pty_to_stream_recv(c)
    \/ pty_to_stream_write(c)
    \/ pty_to_stream_flush(c)
    \/ stream_to_pty_read(c, lim)
    \/ stream_to_pty_send(c)
    \/ pty_writer_recv(c)
    \/ pty_writer_write(c)


(***************************************************************************)
(* OnionShellClient::connect and run_session.                              *)
(*   s2n  the async task stdin_to_net    (stdin, net_write)                *)
(*   n2o  the async task net_to_stdout   (net_read, stdout)                *)
(* A stdin chunk is the sequence of its bytes; 97 stands for every byte    *)
(* other than 0x04.                                                        *)
(***************************************************************************)
StdinBytes == {ESCAPE, 97}

Chunks == UNION {[1..n -> StdinBytes] : n \in 1..MaxChunkLen}

Range(f) == {f[i] : i \in DOMAIN f}

CliInit ==
    [ pc         |-> "idle",  \* idle, connect, session, returned
      host       |-> <<>>,    \* the host connect dials
      port       |-> 0,       \* the port connect dials
      raw        |-> FALSE,   \* the local terminal is in raw mode
      enabled    |-> 0,       \* enable_raw_mode calls that returned Ok
      disabled   |-> 0,       \* disable_raw_mode calls
      result     |-> "none",  \* none, ok, connect_failed, raw_failed
      sel        |-> "none",  \* the select! branch that completed
      s2n        |-> "none",  \* none, read, write, flush, done, panicked, aborted
      s2nBuf     |-> <<>>,
      s2nAbort   |-> FALSE,
      n2o        |-> "none",  \* none, read, write, flush, done, panicked, aborted
      n2oAbort   |-> FALSE,
      stdinReads |-> <<>>,    \* the chunks read from stdin, in order
      netOut     |-> <<>>,    \* the bytes written to the network stream
      netReads   |-> 0,       \* chunks read from the network stream
      stdoutOut  |-> 0,       \* chunks written to stdout
      s2nWhy     |-> "none",  \* what ended stdin_to_net: eof, read_err, escape,
                              \*   write_err, flush_err, panic
      n2oWhy     |-> "none" ] \* what ended net_to_stdout

CliOthers == UNCHANGED <<svc, registry, obs, req, conn, proc, goa>>

\* lines 41-45: ensure the host ends with ".onion"
NormaliseHost(onion_host) ==
    IF onion_host # <<>> /\ onion_host[Len(onion_host)] = ".onion"
      THEN onion_host
      ELSE Append(onion_host, ".onion")

\* an escape test that looks at the first byte of the chunk only
StartsWithEscape(chunk) == chunk[1] = ESCAPE

\* line 106: buf[..n].contains(&0x04)
ContainsEscape(chunk) == ESCAPE \in Range(chunk)

\* lines 39-53: normalise the host and dial it on SHELL_PORT
connect_start(onion_host) ==
    /\ cli.pc = "idle"
    /\ cli' = [cli EXCEPT !.pc = "connect", !.host = NormaliseHost(onion_host),
                          !.port = CLIENT_SHELL_PORT]
    /\ CliOthers

\* lines 49-66 and 83-146: the transport's connect returns; on Ok enter raw
\* mode and spawn the two tasks of run_session
connect_result ==
    /\ cli.pc = "connect"
    /\ \E o \in {"connect_failed", "raw_failed", "ok"} :
         cli' = IF o = "ok"
                  THEN [cli EXCEPT !.pc = "session", !.raw = TRUE, !.enabled = @ + 1,
                                   !.s2n = "read", !.n2o = "read"]
                  ELSE [cli EXCEPT !.pc = "returned", !.result = o]
    /\ CliOthers

\* a connect that returns the JoinError of a task that ended abnormally
\* with `?`, before the terminal is restored
run_session_select_propagate ==
    /\ cli.pc = "session"
    /\ \/ /\ cli.s2n \in {"done", "panicked"}
          /\ cli' = IF cli.s2n = "panicked"
                      THEN [cli EXCEPT !.pc = "returned", !.sel = "stdin_to_net",
                                       !.n2oAbort = TRUE, !.result = "join_error"]
                      ELSE [cli EXCEPT !.pc = "returned", !.sel = "stdin_to_net",
                                       !.n2oAbort = TRUE, !.raw = FALSE,
                                       !.disabled = @ + 1, !.result = "ok"]
       \/ /\ cli.n2o \in {"done", "panicked"}
          /\ cli' = IF cli.n2o = "panicked"
                      THEN [cli EXCEPT !.pc = "returned", !.sel = "net_to_stdout",
                                       !.s2nAbort = TRUE, !.result = "join_error"]
                      ELSE [cli EXCEPT !.pc = "returned", !.sel = "net_to_stdout",
                                       !.s2nAbort = TRUE, !.raw = FALSE,
                                       !.disabled = @ + 1, !.result = "ok"]
    /\ CliOthers

\* a session that returns the I/O error that ended a leg
run_session_select_io_error ==
    /\ cli.pc = "session"
    /\ \/ /\ cli.s2n \in {"done", "panicked"}
          /\ cli' = [cli EXCEPT !.pc = "returned", !.sel = "stdin_to_net",
                                !.n2oAbort = TRUE, !.raw = FALSE, !.disabled = @ + 1,
                                !.result = IF cli.s2nWhy \in {"read_err", "write_err", "flush_err"}
                                             THEN "io_error" ELSE "ok"]
       \/ /\ cli.n2o \in {"done", "panicked"}
          /\ cli' = [cli EXCEPT !.pc = "returned", !.sel = "net_to_stdout",
                                !.s2nAbort = TRUE, !.raw = FALSE, !.disabled = @ + 1,
                                !.result = IF cli.n2oWhy \in {"read_err", "write_err", "flush_err"}
                                             THEN "io_error" ELSE "ok"]
    /\ CliOthers

\* lines 146-161 and 66-75: select! on the two JoinHandles, abort the
\* sibling, Ok(()); then disable_raw_mode and return
run_session_select ==
    /\ cli.pc = "session"
    /\ \/ /\ cli.s2n \in {"done", "panicked"}
          /\ cli' = [cli EXCEPT !.pc = "returned", !.sel = "stdin_to_net",
                                !.n2oAbort = TRUE, !.raw = FALSE, !.disabled = @ + 1,
                                !.result = "ok"]
       \/ /\ cli.n2o \in {"done", "panicked"}
          /\ cli' = [cli EXCEPT !.pc = "returned", !.sel = "net_to_stdout",
                                !.s2nAbort = TRUE, !.raw = FALSE, !.disabled = @ + 1,
                                !.result = "ok"]
    /\ CliOthers

\* an escape that still forwards the bytes in front of 0x04
stdin_to_net_read_forwards_head ==
    /\ cli.s2n = "read"
    /\ Len(cli.stdinReads) < MaxStdinReads
    /\ \E chunk \in Chunks :
         cli' = IF ContainsEscape(chunk)
                  THEN LET at == CHOOSE i \in 1..Len(chunk) :
                                   chunk[i] = ESCAPE /\ \A j \in 1..(i - 1) : chunk[j] # ESCAPE
                       IN  [cli EXCEPT !.s2n = "done", !.stdinReads = Append(@, chunk),
                                       !.netOut = @ \o SubSeq(chunk, 1, at - 1),
                                       !.s2nWhy = "escape"]
                  ELSE [cli EXCEPT !.s2n = "write", !.s2nBuf = chunk,
                                   !.stdinReads = Append(@, chunk)]
    /\ CliOthers

\* lines 101-108: stdin.read returns Ok(n), n > 0; a chunk with 0x04 ends the leg
stdin_to_net_read ==
    /\ cli.s2n = "read"
    /\ Len(cli.stdinReads) < MaxStdinReads
    /\ \E chunk \in Chunks :
         cli' = IF ContainsEscape(chunk)
                  THEN [cli EXCEPT !.s2n = "done", !.stdinReads = Append(@, chunk),
                                   !.s2nWhy = "escape"]
                  ELSE [cli EXCEPT !.s2n = "write", !.s2nBuf = chunk,
                                   !.stdinReads = Append(@, chunk)]
    /\ CliOthers

\* lines 101-102: stdin.read returns Ok(0) or Err
stdin_to_net_eof ==
    /\ cli.s2n = "read"
    /\ \E w \in {"eof", "read_err"} : cli' = [cli EXCEPT !.s2n = "done", !.s2nWhy = w]
    /\ CliOthers

\* lines 110-112: net_write.write_all; a failed write_all may have written a part
stdin_to_net_write ==
    /\ cli.s2n = "write"
    /\ \/ cli' = [cli EXCEPT !.s2n = "flush", !.netOut = @ \o cli.s2nBuf, !.s2nBuf = <<>>]
       \/ \E n \in 0..(Len(cli.s2nBuf) - 1) :
            cli' = [cli EXCEPT !.s2n = "done", !.netOut = @ \o SubSeq(cli.s2nBuf, 1, n),
                               !.s2nBuf = <<>>, !.s2nWhy = "write_err"]
    /\ CliOthers

\* lines 113-115: net_write.flush
stdin_to_net_flush ==
    /\ cli.s2n = "flush"
    /\ \/ cli' = [cli EXCEPT !.s2n = "read"]
       \/ cli' = [cli EXCEPT !.s2n = "done", !.s2nWhy = "flush_err"]
    /\ CliOthers

\* lines 147-151: the task ends with a JoinError that is not a cancellation
stdin_to_net_panic ==
    /\ cli.s2n \in {"read", "write", "flush"}
    /\ cli' = [cli EXCEPT !.s2n = "panicked", !.s2nBuf = <<>>, !.s2nWhy = "panic"]
    /\ CliOthers

\* stdin_to_net.abort() takes effect: the runtime drops the task; a
\* write_all it was in may have written a part
stdin_to_net_cancelled ==
    /\ cli.s2nAbort
    /\ cli.s2n \in {"read", "write", "flush"}
    /\ \E n \in 0..(IF cli.s2n = "write" THEN Len(cli.s2nBuf) - 1 ELSE 0) :
         cli' = [cli EXCEPT !.s2n = "aborted", !.netOut = @ \o SubSeq(cli.s2nBuf, 1, n),
                            !.s2nBuf = <<>>]
    /\ CliOthers

\* lines 130-132: net_read.read returns Ok(n), n > 0
net_to_stdout_read ==
    /\ cli.n2o = "read"
    /\ cli.netReads < MaxNetReads
    /\ cli' = [cli EXCEPT !.n2o = "write", !.netReads = @ + 1]
    /\ CliOthers

\* lines 130-131: net_read.read returns Ok(0) or Err
net_to_stdout_eof ==
    /\ cli.n2o = "read"
    /\ \E w \in {"eof", "read_err"} : cli' = [cli EXCEPT !.n2o = "done", !.n2oWhy = w]
    /\ CliOthers

\* lines 133-135: stdout.write_all
net_to_stdout_write ==
    /\ cli.n2o = "write"
    /\ \/ cli' = [cli EXCEPT !.n2o = "flush", !.stdoutOut = @ + 1]
       \/ cli' = [cli EXCEPT !.n2o = "done", !.n2oWhy = "write_err"]
    /\ CliOthers

\* lines 136-138: stdout.flush
net_to_stdout_flush ==
    /\ cli.n2o = "flush"
    /\ \/ cli' = [cli EXCEPT !.n2o = "read"]
       \/ cli' = [cli EXCEPT !.n2o = "done", !.n2oWhy = "flush_err"]
    /\ CliOthers

\* lines 153-157: the task ends with a JoinError that is not a cancellation
net_to_stdout_panic ==
    /\ cli.n2o \in {"read", "write", "flush"}
    /\ cli' = [cli EXCEPT !.n2o = "panicked", !.n2oWhy = "panic"]
    /\ CliOthers

\* net_to_stdout.abort() takes effect: the runtime drops the task
net_to_stdout_cancelled ==
    /\ cli.n2oAbort
    /\ cli.n2o \in {"read", "write", "flush"}
    /\ cli' = [cli EXCEPT !.n2o = "aborted"]
    /\ CliOthers

(***************************************************************************)
(* main: the command line, the bootstrap, and the key of the Serve command *)
(***************************************************************************)
HexLower == <<"0", "1", "2", "3", "4", "5", "6", "7", "8", "9",
              "a", "b", "c", "d", "e", "f">>
HexUpper == <<"0", "1", "2", "3", "4", "5", "6", "7", "8", "9",
              "A", "B", "C", "D", "E", "F">>

\* hex: val(c), the value of one hex digit of either case, -1 for any other
\* character
val(c) ==
    IF \E i \in 1..16 : HexLower[i] = c \/ HexUpper[i] = c
      THEN (CHOOSE i \in 1..16 : HexLower[i] = c \/ HexUpper[i] = c) - 1
      ELSE -1

\* hex::decode: an odd length is an error, then any character that is no
\* hex digit is; two digits give one byte, the high digit first
hex_decode(str) ==
    IF Len(str) % 2 # 0
      THEN [ok |-> FALSE, bytes |-> <<>>]
    ELSE IF \E i \in 1..Len(str) : val(str[i]) = -1
      THEN [ok |-> FALSE, bytes |-> <<>>]
    ELSE [ok |-> TRUE,
          bytes |-> [i \in 1..(Len(str) \div 2) |->
                       val(str[2 * i - 1]) * 16 + val(str[2 * i])]]

\* a conversion that also takes a shorter key
try_into_shorter(bytes) == Len(bytes) <= KEY_BYTES

\* <[u8; 32]>::try_from(Vec<u8>): succeeds on exactly 32 bytes
try_into(bytes) == Len(bytes) = KEY_BYTES

\* Option<_>
None == [some |-> FALSE, v |-> <<>>]
Some(x) == [some |-> TRUE, v |-> x]

\* the --key arguments tried: n - 1 times the character c, then l
Fill(c, n, l) == [i \in 1..n |-> IF i = n THEN l ELSE c]
KeyLens == (0..MaxKeySlack) \cup ((2 * KEY_BYTES - MaxKeySlack)..(2 * KEY_BYTES + MaxKeySlack))
KeyArgs == {Fill(c, n, l) : c \in {"0", "a"}, n \in KeyLens, l \in {"7", "F", "g"}}

ProcInit ==
    [ pc      |-> "parse",  \* parse, bootstrap, match, serve, connect, returned
      command |-> "none",   \* none, serve, connect
      key     |-> None,     \* Command::Serve { key }
      secret  |-> None,     \* secret_key
      result  |-> "none" ]  \* none, or the Err main returned

\* lines 113-118: Cli::parse; no subcommand is Serve without a key
main_parse ==
    /\ proc.pc = "parse"
    /\ \/ \E k \in {None} \cup {Some(h) : h \in KeyArgs} :
            proc' = [proc EXCEPT !.pc = "bootstrap", !.command = "serve", !.key = k]
       \/ proc' = [proc EXCEPT !.pc = "bootstrap", !.command = "connect"]
    /\ UNCHANGED <<svc, registry, obs, req, conn, cli, goa>>

\* lines 120-132: the configuration is built and Tor bootstrapped, or main
\* returns the error
main_bootstrap ==
    /\ proc.pc = "bootstrap"
    /\ \/ proc' = [proc EXCEPT !.pc = "match"]
       \/ proc' = [proc EXCEPT !.pc = "returned", !.result = "bootstrap failed"]
    /\ UNCHANGED <<svc, registry, obs, req, conn, cli, goa>>

\* lines 138-151: the key of the Serve command is decoded and measured
main_serve_key ==
    /\ proc.pc = "match"
    /\ proc.command = "serve"
    /\ proc' =
         IF ~proc.key.some
           THEN [proc EXCEPT !.pc = "serve", !.secret = None]
         ELSE LET d == hex_decode(proc.key.v) IN
           IF ~d.ok
             THEN [proc EXCEPT !.pc = "returned", !.result = "Invalid hex key"]
           ELSE IF ~try_into(d.bytes)
             THEN [proc EXCEPT !.pc = "returned",
                               !.result = "Key must be exactly 32 bytes (64 hex chars)"]
           ELSE [proc EXCEPT !.pc = "serve", !.secret = Some(d.bytes)]
    /\ UNCHANGED <<svc, registry, obs, req, conn, cli, goa>>

\* lines 160-163: the Connect command goes to OnionShellClient::connect
main_connect ==
    /\ proc.pc = "match"
    /\ proc.command = "connect"
    /\ proc' = [proc EXCEPT !.pc = "connect"]
    /\ UNCHANGED <<svc, registry, obs, req, conn, cli, goa>>

(***************************************************************************)
(* utils.rs: get_onion_address. A byte is a number in 0..255, a string the *)
(* sequence of its characters.                                             *)
(***************************************************************************)
\* b".onion checksum"
ONION_CHECKSUM == <<46, 111, 110, 105, 111, 110, 32, 99, 104, 101, 99, 107, 115, 117, 109>>

RECURSIVE WeightedSum(_, _)
WeightedSum(msg, j) ==
    IF j > Len(msg) THEN 0 ELSE (j * msg[j] + WeightedSum(msg, j + 1)) % 65521

\* Sha3_256: h.update(..) three times, then h.finalize(). The digest is
\* not computed: a fixed function of all the bytes that were fed, in their
\* order, to 32 bytes stands for it.
Sha3_256(msg) ==
    LET w == WeightedSum(msg, 1) IN [i \in 1..32 |-> (w * i + Len(msg)) % 256]

\* base32::Alphabet::Rfc4648
RFC4648_ALPHABET ==
    <<"A", "B", "C", "D", "E", "F", "G", "H", "I", "J", "K", "L", "M", "N", "O", "P",
      "Q", "R", "S", "T", "U", "V", "W", "X", "Y", "Z", "2", "3", "4", "5", "6", "7">>
LOWER_ALPHABET ==
    <<"a", "b", "c", "d", "e", "f", "g", "h", "i", "j", "k", "l", "m", "n", "o", "p",
      "q", "r", "s", "t", "u", "v", "w", "x", "y", "z", "2", "3", "4", "5", "6", "7">>

\* the eight 5-bit groups of a block of five bytes
Block(b) ==
    << b[1] \div 8,
       (b[1] % 8) * 4 + b[2] \div 64,
       (b[2] \div 2) % 32,
       (b[2] % 2) * 16 + b[3] \div 16,
       (b[3] % 16) * 2 + b[4] \div 128,
       (b[4] \div 4) % 32,
       (b[4] % 4) * 8 + b[5] \div 32,
       b[5] % 32 >>

\* base32::encode(Rfc4648 { padding: false }, data): blocks of five bytes,
\* the last one filled with zeros, and of its characters only those that
\* hold data
base32_encode(data) ==
    LET blocks == (Len(data) + 4) \div 5
        at(i) == IF i <= Len(data) THEN data[i] ELSE 0
        group(k) == Block([j \in 1..5 |-> at(5 * (k - 1) + j)])
        chars == (8 * Len(data) + 4) \div 5
    IN  [i \in 1..chars |->
           RFC4648_ALPHABET[group((i - 1) \div 8 + 1)[((i - 1) % 8) + 1] + 1]]

\* a string as it is
keep_case(str) == str

\* str::to_ascii_lowercase
to_ascii_lowercase(str) ==
    [i \in 1..Len(str) |->
       IF \E k \in 1..32 : RFC4648_ALPHABET[k] = str[i]
         THEN LOWER_ALPHABET[CHOOSE k \in 1..32 : RFC4648_ALPHABET[k] = str[i]]
         ELSE str[i]]

\* lines 16-31: the 35-byte buffer, given a key of 32 bytes
AddressBuffer(pub_key) ==
    LET res_vec == Sha3_256(ONION_CHECKSUM \o pub_key \o <<3>>)
    IN  [i \in 1..35 |->
           IF i <= 32 THEN pub_key[i]
           ELSE IF i = 33 THEN res_vec[1]
           ELSE IF i = 34 THEN res_vec[2]
           ELSE 3]

\* lines 14-31: the function, given a key of 32 bytes
get_onion_address(public_key) ==
    to_ascii_lowercase(base32_encode(AddressBuffer(public_key)))

\* the keys tried: first byte a, last byte b, every other byte m
ByteSamples == {0, 128, 255}
PublicKey(a, m, b, n) == [i \in 1..n |-> IF i = 1 THEN a ELSE IF i = n THEN b ELSE m]
PublicKeys ==
    {PublicKey(a, m, b, 32) : a \in ByteSamples, m \in {0, 90, 255}, b \in ByteSamples}
      \cup {PublicKey(1, 90, 255, n) : n \in {31, 33}}

GoaInit ==
    [ pc      |-> "idle",  \* idle, returned, panicked
      key     |-> <<>>,    \* public_key
      out     |-> <<>>,    \* the String returned
      prevKey |-> <<>>,    \* the key and the result of the call before,
      prevOut |-> <<>> ]   \*   if it returned

\* lines 14-31: one call; line 15 panics unless the key has 32 bytes
call_get_onion_address(public_key) ==
    /\ goa' = [pc |-> IF Len(public_key) = 32 THEN "returned" ELSE "panicked",
               key |-> public_key,
               out |-> IF Len(public_key) = 32 THEN get_onion_address(public_key) ELSE <<>>,
               prevKey |-> IF goa.pc = "returned" THEN goa.key ELSE goa.prevKey,
               prevOut |-> IF goa.pc = "returned" THEN goa.out ELSE goa.prevOut]
    /\ UNCHANGED <<svc, registry, obs, req, conn, cli, proc>>

(***************************************************************************)
(* onion_service_from_sk: the launch of one service, its announce task,    *)
(* its serve task (registration, then forward mode or the direct-shell     *)
(* accept loop), and RUNNING_ONION_SERVICES.                               *)
(***************************************************************************)
Addrs == 1..NumServices
Ports == {SHELL_PORT, CLIENT_SHELL_PORT}

\* onion_address().display_unredacted().to_string(): "<label>.onion"
OnionAddress(a) == <<ToString(a), ".onion">>

\* str::trim_end_matches(".onion"): strips every trailing ".onion"
RECURSIVE trim_end_matches(_)
trim_end_matches(str) ==
    IF str # <<>> /\ str[Len(str)] = ".onion"
      THEN trim_end_matches(SubSeq(str, 1, Len(str) - 1))
      ELSE str

\* the key under which a service registers its token (lines 334-340)
RegistryKey(a) == trim_end_matches(OnionAddress(a))

\* an insert that keeps the value of a key that is present (or_insert)
InsertIfAbsent(map, k, v) ==
    [x \in DOMAIN map \cup {k} |-> IF x \in DOMAIN map THEN map[x] ELSE v]

\* HashMap::insert
Insert(map, k, v) == [x \in DOMAIN map \cup {k} |-> IF x = k THEN v ELSE map[x]]

\* the request a client's connect opens (onion_client.rs lines 49-53)
ClientRequest == [port |-> CLIENT_SHELL_PORT, begin |-> TRUE]

SvcInit ==
    [ main         |-> "idle",  \* idle, launched, panicked
      key          |-> FALSE,   \* secret_key is Some
      forward      |-> FALSE,   \* forward_proxy is Some
      via          |-> "none",  \* none, generic, hsid, fallback
      launch       |-> <<>>,    \* what the launch calls returned, in call order
      addr         |-> 0,
      ann          |-> "none",  \* announce task: none, wait, done
      sawReachable |-> FALSE,   \* an event with is_fully_reachable() was seen
      announced    |-> 0,       \* "Shell service available at" lines emitted
      serve        |-> "none",  \* serve task: none, lock, insert, store, select,
                                \*   accept, forward, exited
      local        |-> <<>>,    \* the map as the insert in progress read it
      cancelled    |-> FALSE,   \* cancel_token is cancelled
      cur          |-> 0,       \* the request whose accept() is awaited
      streamEnded  |-> FALSE ]  \* the request stream returned None

\* a caller of the registry; before: the services whose registration had
\* completed when the lookup started; torn: the table was read while an
\* insert was between its read and its write
ObsInit == [pc |-> "idle", key |-> <<>>, before |-> {}, result |-> 0, torn |-> FALSE]

ReqInit ==
    [ st |-> "none",   \* none, accepting, accepted, accept_failed, rejected, forwarded
      svc |-> 0, port |-> 0, begin |-> FALSE,
      acceptCalls |-> 0, shutdownCalls |-> 0 ]

Init ==
    /\ svc = [s \in Services |-> SvcInit]
    /\ registry = [lock |-> 0, map |-> <<>>]
    /\ obs = ObsInit
    /\ req = [r \in Reqs |-> ReqInit]
    /\ conn = [r \in Reqs |-> ConnInit]
    /\ cli = CliInit
    /\ proc = ProcInit
    /\ goa = GoaInit

\* the next request of the process, if the bound leaves one
FreeReq == {r \in Reqs : req[r].st = "none" /\ \A q \in 1..(r - 1) : req[q].st # "none"}

\* lines 265-301: what the two launch calls returned
LaunchOutcomes(key) ==
    IF key
      THEN {<<"some">>, <<"err">>, <<"none", "some">>, <<"none", "none">>, <<"none", "err">>}
      ELSE {<<"some">>, <<"none">>, <<"err">>}

\* a launch that logs a failure and starts the two tasks all the same
onion_service_from_sk_continues(s, key, fwd, a) ==
    /\ svc[s].main = "idle"
    /\ \E o \in LaunchOutcomes(key) :
         svc' = [svc EXCEPT ![s] =
            [@ EXCEPT !.main = IF o[Len(o)] = "some" THEN "launched" ELSE "panicked",
                      !.key = key, !.forward = fwd, !.addr = a, !.launch = o,
                      !.via = IF ~key THEN "generic"
                              ELSE IF Len(o) = 1 THEN "hsid" ELSE "fallback",
                      !.ann = "wait", !.serve = "lock"]]
    /\ UNCHANGED <<registry, obs, req, conn, cli, proc, goa>>

\* lines 246-327: launch; on success spawn the announce task and the serve task
onion_service_from_sk(s, key, fwd, a) ==
    /\ svc[s].main = "idle"
    /\ \E o \in LaunchOutcomes(key) :
         svc' = [svc EXCEPT ![s] =
            IF o[Len(o)] = "some"
              THEN [@ EXCEPT !.main = "launched", !.key = key, !.forward = fwd, !.addr = a,
                             !.launch = o,
                             !.via = IF ~key THEN "generic"
                                     ELSE IF Len(o) = 1 THEN "hsid" ELSE "fallback",
                             !.ann = "wait", !.serve = "lock"]
              ELSE [@ EXCEPT !.main = "panicked", !.key = key, !.forward = fwd,
                             !.launch = o]]
    /\ UNCHANGED <<registry, obs, req, conn, cli, proc, goa>>

\* lines 307-325: one status event, or the end of the status stream
announce(s) ==
    /\ svc[s].ann = "wait"
    /\ \E e \in {"reachable", "not_reachable", "end"} :
         svc' = [svc EXCEPT ![s] =
            IF e = "reachable"
              THEN [@ EXCEPT !.ann = "done", !.sawReachable = TRUE, !.announced = @ + 1]
            ELSE IF e = "end"
              THEN [@ EXCEPT !.ann = "done", !.announced = @ + 1]
            ELSE @]
    /\ UNCHANGED <<registry, obs, req, conn, cli, proc, goa>>

\* a lock that does not wait for the holder
registry_lock_unguarded(s) ==
    /\ svc[s].serve = "lock"
    /\ registry' = [registry EXCEPT !.lock = s]
    /\ svc' = [svc EXCEPT ![s] = [@ EXCEPT !.serve = "insert"]]
    /\ UNCHANGED <<obs, req, conn, cli, proc, goa>>

\* a serve task that registers only once the announcement is out
registry_lock_after_announce(s) ==
    /\ svc[s].serve = "lock"
    /\ svc[s].ann = "done"
    /\ registry.lock = 0
    /\ registry' = [registry EXCEPT !.lock = s]
    /\ svc' = [svc EXCEPT ![s] = [@ EXCEPT !.serve = "insert"]]
    /\ UNCHANGED <<obs, req, conn, cli, proc, goa>>

\* line 332: RUNNING_ONION_SERVICES.lock()
registry_lock(s) ==
    /\ svc[s].serve = "lock"
    /\ registry.lock = 0
    /\ registry' = [registry EXCEPT !.lock = s]
    /\ svc' = [svc EXCEPT ![s] = [@ EXCEPT !.serve = "insert"]]
    /\ UNCHANGED <<obs, req, conn, cli, proc, goa>>

\* line 333: running.insert starts: it reads the table
registry_insert_begin(s) ==
    /\ svc[s].serve = "insert"
    /\ svc' = [svc EXCEPT ![s] = [@ EXCEPT !.serve = "store", !.local = registry.map]]
    /\ UNCHANGED <<registry, obs, req, conn, cli, proc, goa>>

\* lines 333-345: running.insert ends: it writes the table; the guard is
\* dropped; the serve task enters the mode forward_proxy selects
registry_insert_end(s) ==
    /\ svc[s].serve = "store"
    /\ registry' = [lock |-> 0,
                    map |-> Insert(svc[s].local, RegistryKey(svc[s].addr), s)]
    /\ svc' = [svc EXCEPT ![s] =
          [@ EXCEPT !.serve = IF svc[s].forward THEN "forward" ELSE "select",
                    !.local = <<>>]]
    /\ UNCHANGED <<obs, req, conn, cli, proc, goa>>

\* a filter that accepts a Begin for any port
AnyBegin(p, b) == b

\* lines 391-392: IncomingStreamRequest::Begin(begin) if begin.port() == SHELL_PORT
ShellRequest(p, b) == b /\ p = SHELL_PORT

\* lines 388-415: the request stream yields a request; the port filter
accept_loop_request(s) ==
    /\ svc[s].serve = "select"
    /\ ~svc[s].streamEnded
    /\ \E r \in FreeReq, p \in Ports, b \in BOOLEAN :
         IF ShellRequest(p, b)
           THEN /\ req' = [req EXCEPT ![r] =
                      [@ EXCEPT !.st = "accepting", !.svc = s, !.port = p, !.begin = b,
                                !.acceptCalls = @ + 1]]
                /\ svc' = [svc EXCEPT ![s] = [@ EXCEPT !.serve = "accept", !.cur = r]]
           ELSE /\ req' = [req EXCEPT ![r] =
                      [@ EXCEPT !.st = "rejected", !.svc = s, !.port = p, !.begin = b,
                                !.shutdownCalls = @ + 1]]
                /\ UNCHANGED svc
    /\ UNCHANGED <<registry, obs, conn, cli, proc, goa>>

\* an accept branch that spawns the handler whatever accept returned
accept_loop_accepted_always_spawns(s) ==
    /\ svc[s].serve = "accept"
    /\ LET r == svc[s].cur IN
       \E ok \in BOOLEAN :
         /\ req' = [req EXCEPT ![r] =
               [@ EXCEPT !.st = IF ok THEN "accepted" ELSE "accept_failed"]]
         /\ conn' = [conn EXCEPT ![r] = [@ EXCEPT !.hpc = "start"]]
    /\ svc' = [svc EXCEPT ![s] = [@ EXCEPT !.serve = "select", !.cur = 0]]
    /\ UNCHANGED <<registry, obs, cli, proc, goa>>

\* an accept branch that leaves the loop when accept fails
accept_loop_accepted_or_return(s) ==
    /\ svc[s].serve = "accept"
    /\ LET r == svc[s].cur IN
       \E ok \in BOOLEAN :
         /\ req' = [req EXCEPT ![r] =
               [@ EXCEPT !.st = IF ok THEN "accepted" ELSE "accept_failed"]]
         /\ conn' = IF ok THEN [conn EXCEPT ![r] = [@ EXCEPT !.hpc = "start"]] ELSE conn
         /\ svc' = [svc EXCEPT ![s] =
               [@ EXCEPT !.serve = IF ok THEN "select" ELSE "exited", !.cur = 0]]
    /\ UNCHANGED <<registry, obs, cli, proc, goa>>

\* lines 395-405: stream_request.accept(..).await returns
accept_loop_accepted(s) ==
    /\ svc[s].serve = "accept"
    /\ LET r == svc[s].cur IN
       \E ok \in BOOLEAN :
         /\ req' = [req EXCEPT ![r] =
               [@ EXCEPT !.st = IF ok THEN "accepted" ELSE "accept_failed"]]
         /\ conn' = IF ok THEN [conn EXCEPT ![r] = [@ EXCEPT !.hpc = "start"]] ELSE conn
    /\ svc' = [svc EXCEPT ![s] = [@ EXCEPT !.serve = "select", !.cur = 0]]
    /\ UNCHANGED <<registry, obs, cli, proc, goa>>

\* a loop that ends with its request stream (while let Some(..) = next())
accept_loop_stream_end_exits(s) ==
    /\ svc[s].serve = "select"
    /\ ~svc[s].streamEnded
    /\ svc' = [svc EXCEPT ![s] = [@ EXCEPT !.streamEnded = TRUE, !.serve = "exited"]]
    /\ UNCHANGED <<registry, obs, req, conn, cli, proc, goa>>

\* line 388: accepted_streams.next() returns None: the branch is disabled
accept_loop_stream_end(s) ==
    /\ svc[s].serve = "select"
    /\ ~svc[s].streamEnded
    /\ svc' = [svc EXCEPT ![s] = [@ EXCEPT !.streamEnded = TRUE]]
    /\ UNCHANGED <<registry, obs, req, conn, cli, proc, goa>>

\* a shutdown that also aborts the bridge tasks of the open connections
accept_loop_cancelled_aborts(s) ==
    /\ svc[s].serve = "select"
    /\ svc[s].cancelled
    /\ svc' = [svc EXCEPT ![s] = [@ EXCEPT !.serve = "exited"]]
    /\ conn' = [c \in Reqs |->
                  IF conn[c].hpc = "select"
                    THEN [conn[c] EXCEPT !.s2pAbort = TRUE, !.p2sAbort = TRUE]
                    ELSE conn[c]]
    /\ UNCHANGED <<registry, obs, req, cli, proc, goa>>

\* lines 417-420: cancel_token.cancelled() completes: return
accept_loop_cancelled(s) ==
    /\ svc[s].serve = "select"
    /\ svc[s].cancelled
    /\ svc' = [svc EXCEPT ![s] = [@ EXCEPT !.serve = "exited"]]
    /\ UNCHANGED <<registry, obs, req, conn, cli, proc, goa>>

\* a forward mode in which the serve task filters the request by port
\* before the proxy gets it
forward_request_filtered(s) ==
    /\ svc[s].serve = "forward"
    /\ ~svc[s].streamEnded
    /\ \E r \in FreeReq, p \in Ports, b \in BOOLEAN :
         req' = [req EXCEPT ![r] =
            IF ShellRequest(p, b)
              THEN [@ EXCEPT !.st = "forwarded", !.svc = s, !.port = p, !.begin = b]
              ELSE [@ EXCEPT !.st = "rejected", !.svc = s, !.port = p, !.begin = b,
                             !.shutdownCalls = @ + 1]]
    /\ UNCHANGED <<svc, registry, obs, conn, cli, proc, goa>>

\* lines 364-368: the reverse proxy takes a request off the stream
forward_request(s) ==
    /\ svc[s].serve = "forward"
    /\ ~svc[s].streamEnded
    /\ \E r \in FreeReq, p \in Ports, b \in BOOLEAN :
         req' = [req EXCEPT ![r] =
            [@ EXCEPT !.st = "forwarded", !.svc = s, !.port = p, !.begin = b]]
    /\ UNCHANGED <<svc, registry, obs, conn, cli, proc, goa>>

\* lines 364-373: proxy.handle_requests returns Ok or Err
forward_finished(s) ==
    /\ svc[s].serve = "forward"
    /\ svc' = [svc EXCEPT ![s] = [@ EXCEPT !.serve = "exited", !.streamEnded = TRUE]]
    /\ UNCHANGED <<registry, obs, req, conn, cli, proc, goa>>

\* lines 374-376: cancel_token.cancelled() completes
forward_cancelled(s) ==
    /\ svc[s].serve = "forward"
    /\ svc[s].cancelled
    /\ svc' = [svc EXCEPT ![s] = [@ EXCEPT !.serve = "exited"]]
    /\ UNCHANGED <<registry, obs, req, conn, cli, proc, goa>>

\* the registration of service s has completed
Registered(s) == svc[s].serve \in {"select", "accept", "forward", "exited"}

\* a caller of the registry: lock
lookup_lock(a) ==
    /\ obs.pc = "idle"
    /\ registry.lock = 0
    /\ registry' = [registry EXCEPT !.lock = -1]
    /\ obs' = [obs EXCEPT !.pc = "locked", !.key = RegistryKey(a),
                          !.before = {s \in Services : Registered(s)}]
    /\ UNCHANGED <<svc, req, conn, cli, proc, goa>>

\* a caller of the registry: get, and drop the guard
lookup_get ==
    /\ obs.pc = "locked"
    /\ obs' = [obs EXCEPT !.pc = "got",
                          !.result = IF obs.key \in DOMAIN registry.map
                                       THEN registry.map[obs.key] ELSE 0,
                          !.torn = \E s \in Services : svc[s].serve = "store"]
    /\ registry' = [registry EXCEPT !.lock = 0]
    /\ UNCHANGED <<svc, req, conn, cli, proc, goa>>

\* the caller is done with what it found
lookup_done ==
    /\ obs.pc = "got"
    /\ obs' = [obs EXCEPT !.pc = "idle", !.key = <<>>, !.before = {}, !.result = 0]
    /\ UNCHANGED <<svc, registry, req, conn, cli, proc, goa>>

\* CancellationToken::cancel by a holder of the handle service s registered
cancel(s) ==
    /\ Registered(s)
    /\ ~svc[s].cancelled
    /\ svc' = [svc EXCEPT ![s] = [@ EXCEPT !.cancelled = TRUE]]
    /\ UNCHANGED <<registry, obs, req, conn, cli, proc, goa>>

(* ------- the life of one service: launch, announce, serve, cancel ------ *)
NextLifecycle ==
    \/ \E key \in BOOLEAN, fwd \in BOOLEAN : onion_service_from_sk(1, key, fwd, 1)
    \/ announce(1)
    \/ registry_lock(1)
    \/ registry_insert_begin(1)
    \/ registry_insert_end(1)
    \/ accept_loop_request(1)
    \/ accept_loop_accepted(1)
    \/ accept_loop_stream_end(1)
    \/ accept_loop_cancelled(1)
    \/ forward_request(1)
    \/ forward_finished(1)
    \/ forward_cancelled(1)
    \/ cancel(1)

SpecLifecycle == Init /\ [][NextLifecycle]_vars

(* ---- one service without a key and the connections it accepts; the ---- *)
(* ---- endpoints of a connection close or fail, and deliver no data   ---- *)
Next ==
    \/ \E fwd \in BOOLEAN : onion_service_from_sk(1, FALSE, fwd, 1)
    \/ registry_lock(1)
    \/ registry_insert_begin(1)
    \/ registry_insert_end(1)
    \/ accept_loop_request(1)
    \/ accept_loop_accepted(1)
    \/ accept_loop_stream_end(1)
    \/ accept_loop_cancelled(1)
    \/ forward_request(1)
    \/ forward_finished(1)
    \/ forward_cancelled(1)
    \/ cancel(1)
    \/ \E c \in Reqs : ConnControl(c)

Spec == Init /\ [][Next]_vars

(* ---- the bridge of one accepted connection, with data: the service ---- *)
(* ---- is in its accept loop and has just spawned the handler         ---- *)
InitBridge ==
    /\ svc = [s \in Services |->
                IF s = 1
                  THEN [SvcInit EXCEPT !.main = "launched", !.via = "generic", !.addr = 1,
                                       !.ann = "wait", !.serve = "select"]
                  ELSE SvcInit]
    /\ registry = [lock |-> 0, map |-> Insert(<<>>, RegistryKey(1), 1)]
    /\ obs = ObsInit
    /\ req = [r \in Reqs |->
                IF r = 1
                  THEN [ReqInit EXCEPT !.st = "accepted", !.svc = 1, !.port = SHELL_PORT,
                                       !.begin = TRUE, !.acceptCalls = 1]
                  ELSE ReqInit]
    /\ conn = [r \in Reqs |-> IF r = 1 THEN [ConnInit EXCEPT !.hpc = "start"] ELSE ConnInit]
    /\ cli = CliInit
    /\ proc = ProcInit
    /\ goa = GoaInit

NextBridge == ConnControl(1) \/ ConnData(1, MaxBytes)

SpecBridge == InitBridge /\ [][NextBridge]_vars

\* The runtime schedules every task that can run, and a write or a flush
\* that was started returns, with Ok or with Err. Nothing makes an endpoint
\* deliver data or close: no read is fair.
FairBridge ==
    /\ SpecBridge
    /\ WF_vars(handle_shell_connection_start(1) \/ handle_shell_connection_select(1))
    /\ WF_vars(pty_reader_send(1))
    /\ WF_vars(pty_to_stream_closed(1) \/ pty_to_stream_recv(1) \/ pty_to_stream_write(1)
                 \/ pty_to_stream_flush(1))
    /\ WF_vars(pty_to_stream_cancelled(1))
    /\ WF_vars(stream_to_pty_send(1))
    /\ WF_vars(stream_to_pty_cancelled(1))
    /\ WF_vars(pty_writer_closed(1) \/ pty_writer_recv(1) \/ pty_writer_write(1))

(***************************************************************************)
(* C1: once one endpoint of a server bridge has closed (the network read   *)
(* returned 0 or an error, or the PTY read did), handle_shell_connection   *)
(* eventually returns and both async tasks eventually end, whatever the    *)
(* other endpoint does; and when it returns, abort() has been called on    *)
(* the task of the direction that did not complete first.                  *)
(***************************************************************************)
C1_BridgeReturns ==
    /\ (conn[1].netEnd \/ conn[1].ptyEnd)
         ~> (conn[1].hpc = "returned" /\ Finished(conn[1].s2p) /\ Finished(conn[1].p2s))
    /\ [](conn[1].sel = "pty_to_stream" => conn[1].p2s = "done" /\ conn[1].s2pAbort)
    /\ [](conn[1].sel = "stream_to_pty" => conn[1].s2p = "done" /\ conn[1].p2sAbort)

\* the PTY closed after some output, the network never closed, and the
\* bridge returned and cancelled the task that reads the network
C1_Witness ==
    /\ conn[1].hpc = "returned"
    /\ conn[1].sel = "pty_to_stream"
    /\ conn[1].ptyEnd /\ conn[1].ptyRead > 0
    /\ ~conn[1].netEnd
    /\ conn[1].s2p = "aborted"

(* ------------------------- one client session ------------------------- *)
NextClient ==
    \/ \E h \in {<<"1">>, <<"1", ".onion">>} : connect_start(h)
    \/ connect_result
    \/ run_session_select
    \/ stdin_to_net_read
    \/ stdin_to_net_eof
    \/ stdin_to_net_write
    \/ stdin_to_net_flush
    \/ stdin_to_net_panic
    \/ stdin_to_net_cancelled
    \/ net_to_stdout_read
    \/ net_to_stdout_eof
    \/ net_to_stdout_write
    \/ net_to_stdout_flush
    \/ net_to_stdout_panic
    \/ net_to_stdout_cancelled

SpecClient == Init /\ [][NextClient]_vars

C9_TerminalRestored ==
    cli.pc = "returned" => ~cli.raw /\ cli.disabled >= cli.enabled

\* raw mode was entered, a task of the bridge ended abnormally, connect returned
C9_Witness ==
    /\ cli.pc = "returned"
    /\ cli.enabled = 1
    /\ cli.n2o = "panicked"
    /\ cli.sel = "net_to_stdout"

(* ---- several services launched in one process: registrations and ---- *)
(* ---- lookups on RUNNING_ONION_SERVICES, no stream requests         ---- *)
NextRegistry ==
    \/ \E s \in Services, fwd \in BOOLEAN, a \in Addrs : onion_service_from_sk(s, FALSE, fwd, a)
    \/ \E s \in Services : registry_lock(s)
    \/ \E s \in Services : registry_insert_begin(s)
    \/ \E s \in Services : registry_insert_end(s)
    \/ \E s \in Services : cancel(s)
    \/ \E s \in Services : accept_loop_cancelled(s)
    \/ \E s \in Services : forward_cancelled(s)
    \/ \E a \in Addrs : lookup_lock(a)
    \/ lookup_get
    \/ lookup_done

SpecRegistry == Init /\ [][NextRegistry]_vars

\* The runtime schedules the serve task; accept() returns; a select! whose
\* cancelled() branch is ready again and again eventually takes it (tokio
\* picks the branch to poll first at random).
FairSpec ==
    /\ Spec
    /\ WF_vars(accept_loop_accepted(1))
    /\ SF_vars(accept_loop_cancelled(1))
    /\ WF_vars(forward_cancelled(1))

\* a request a direct-shell service has taken off its request stream
Filtered(r) == req[r].st \in {"accepting", "accepted", "accept_failed", "rejected"}

(***************************************************************************)
(* C3: a request opened by OnionShellClient::connect (a Begin for the      *)
(* client's SHELL_PORT) that reaches a direct-shell service passes the     *)
(* server's port filter: accept is invoked on it and its circuit is not    *)
(* shut down.                                                              *)
(***************************************************************************)
C3_ClientPortAccepted ==
    \A r \in Reqs :
        Filtered(r) /\ [port |-> req[r].port, begin |-> req[r].begin] = ClientRequest
          => req[r].acceptCalls = 1 /\ req[r].shutdownCalls = 0

(***************************************************************************)
(* C4: the port filter invokes accept, and never shutdown_circuit, on      *)
(* every Begin request for the shell port; it invokes shutdown_circuit,    *)
(* and never accept, on every other request, which is never accepted.      *)
(***************************************************************************)
C4_PortFilter ==
    \A r \in Reqs :
        Filtered(r) =>
          IF req[r].begin /\ req[r].port = SHELL_PORT
            THEN req[r].acceptCalls = 1 /\ req[r].shutdownCalls = 0
            ELSE req[r].acceptCalls = 0 /\ req[r].shutdownCalls = 1
                   /\ req[r].st = "rejected" /\ conn[r].hpc = "none"

\* a Begin for another port was rejected and a Begin for the shell port accepted
C4_Witness ==
    \E r1, r2 \in Reqs :
        /\ req[r1].st = "rejected" /\ req[r1].begin /\ req[r1].port # SHELL_PORT
        /\ req[r2].st = "accepted" /\ req[r2].port = SHELL_PORT

\* the prologue of the handler of connection c has run
HandlerRan(c) == conn[c].hpc \in {"select", "returned"}

(***************************************************************************)
(* C5, as claimed: once the handler of an accepted request has run, that   *)
(* request has exactly one ShellProcess.                                   *)
(***************************************************************************)
C5_ExactlyOneShell ==
    \A r \in Reqs : req[r].st = "accepted" /\ HandlerRan(r) => conn[r].spawned = 1

(***************************************************************************)
(* C5, amended: a request never has more than one ShellProcess, and has    *)
(* one only if it was accepted; once the handler of an accepted request    *)
(* has run, the request has exactly one ShellProcess unless openpty or     *)
(* spawn_command failed, and none if either failed.                        *)
(***************************************************************************)
C5_AtMostOneShell ==
    \A r \in Reqs :
        /\ conn[r].spawned <= 1
        /\ conn[r].hpc # "none" => req[r].st = "accepted"
        /\ req[r].st = "accepted" /\ HandlerRan(r) =>
             (conn[r].spawned = 1
                <=> conn[r].outcome \notin {"openpty_failed", "spawn_failed"})

\* one accepted request has its shell, another accepted request has none
C5_Witness ==
    \E r1, r2 \in Reqs :
        /\ req[r1].st = "accepted" /\ conn[r1].spawned = 1 /\ conn[r1].hpc = "select"
        /\ req[r2].st = "accepted" /\ conn[r2].spawned = 0 /\ conn[r2].hpc = "returned"

(***************************************************************************)
(* C6: once the handle of a service is cancelled its serve task            *)
(* eventually exits, in direct-shell mode and in forward mode; neither the *)
(* cancellation nor the exit of the serve task changes anything in any     *)
(* connection; and a bridge that has returned has seen one of its own      *)
(* endpoints close.                                                        *)
(***************************************************************************)
C6_CancelStopsLoopOnly ==
    /\ svc[1].cancelled ~> svc[1].serve = "exited"
    /\ [][svc[1].cancelled' # svc[1].cancelled => conn' = conn]_vars
    /\ [][svc[1].serve' = "exited" /\ svc[1].serve # "exited" => conn' = conn]_vars
    /\ [](\A c \in Reqs : conn[c].outcome = "ok" /\ conn[c].hpc = "returned"
                            => conn[c].netEnd \/ conn[c].ptyEnd)

\* the handle was cancelled and the accept loop has exited while the
\* bridge of a connection is open, none of its tasks aborted
C6_Witness ==
    /\ svc[1].cancelled
    /\ svc[1].serve = "exited"
    /\ ~svc[1].forward
    /\ \E c \in Reqs :
         /\ conn[c].hpc = "select"
         /\ conn[c].s2p = "read" /\ conn[c].p2s = "recv"
         /\ ~conn[c].s2pAbort /\ ~conn[c].p2sAbort

(***************************************************************************)
(* C7: the announcement is emitted at most once, and only after an event   *)
(* whose state is fully reachable was observed.                            *)
(***************************************************************************)
C7_AnnouncedOnlyWhenReachable ==
    \A s \in Services :
        /\ svc[s].announced <= 1
        /\ svc[s].announced > 0 => svc[s].sawReachable

(***************************************************************************)
(* C8: when the services have distinct addresses, the entry of every       *)
(* service whose registration has completed is in the table; a lookup      *)
(* that started after a registration completed finds an entry under that   *)
(* key; no lookup reads the table between the read and the write of an     *)
(* insert; and no two holders are inside the mutex at once.                *)
(***************************************************************************)
DistinctAddresses ==
    \A s, t \in Services :
        s # t /\ svc[s].main = "launched" /\ svc[t].main = "launched"
          => svc[s].addr # svc[t].addr

C8_NoLostInsert ==
    /\ DistinctAddresses =>
         \A s \in Services :
             Registered(s) =>
               /\ RegistryKey(svc[s].addr) \in DOMAIN registry.map
               /\ registry.map[RegistryKey(svc[s].addr)] = s
    /\ obs.pc = "got" =>
         \A s \in obs.before :
             RegistryKey(svc[s].addr) = obs.key =>
               /\ obs.result # 0
               /\ DistinctAddresses => obs.result = s
    /\ ~obs.torn
    /\ Cardinality({s \in Services : svc[s].serve \in {"insert", "store"}}) <= 1

\* two services with distinct addresses have registered, and a lookup that
\* started afterwards has found the second
C8_Witness ==
    /\ obs.pc = "got"
    /\ obs.before = {1, 2}
    /\ svc[1].addr # svc[2].addr
    /\ obs.result = 2
    /\ Cardinality(DOMAIN registry.map) = 2

\* a step in which connection c fails: its request is rejected or its
\* accept fails, the prologue of its handler fails, or a read on one of its
\* endpoints returns 0 or an error
FailureStep(c) ==
    \/ req[c].st # req'[c].st /\ req'[c].st \in {"rejected", "accept_failed"}
    \/ conn[c].outcome = "none" /\ conn'[c].outcome \notin {"none", "ok"}
    \/ ~conn[c].netEnd /\ conn'[c].netEnd
    \/ ~conn[c].ptyEnd /\ conn'[c].ptyEnd

C11_PublishOutcomes ==
    LET l == svc[1].launch IN
    /\ svc[1].main = "idle" <=> l = <<>>
    /\ svc[1].main = "launched" <=> (l # <<>> /\ l[Len(l)] = "some")
    /\ svc[1].main = "panicked" <=> (l # <<>> /\ l[Len(l)] # "some")
    /\ Len(l) = 2 <=> (svc[1].key /\ l # <<>> /\ l[1] = "none")
    /\ svc[1].via = "fallback" <=> l = <<"none", "some">>
    /\ svc[1].main = "panicked" =>
          /\ svc[1].ann = "none" /\ svc[1].serve = "none" /\ svc[1].announced = 0
          /\ registry.map = <<>>
          /\ \A r \in Reqs : req[r].st = "none"

\* the launch under the key's identity returned no service, the generic
\* launch returned one, and the service has accepted a request
C11_Witness ==
    /\ svc[1].key
    /\ svc[1].launch = <<"none", "some">>
    /\ Registered(1)
    /\ \E r \in Reqs : req[r].st = "accepted" /\ req[r].svc = 1

(* ---- main in serve mode: the key, then the service it starts ---- *)
NextMain ==
    \/ main_parse
    \/ main_bootstrap
    \/ main_serve_key
    \/ main_connect
    \/ proc.pc = "serve" /\ onion_service_from_sk(1, proc.secret.some, FALSE, 1)
    \/ registry_lock(1)
    \/ registry_insert_begin(1)
    \/ registry_insert_end(1)
    \/ accept_loop_request(1)
    \/ accept_loop_accepted(1)
    \/ accept_loop_stream_end(1)
    \/ accept_loop_cancelled(1)
    \/ cancel(1)

SpecMain == Init /\ [][NextMain]_vars

\* 64 characters, each a hex digit of either case
WellFormedKey(str) ==
    /\ Len(str) = 2 * KEY_BYTES
    /\ \A i \in 1..Len(str) : str[i] \in Range(HexLower) \cup Range(HexUpper)

(***************************************************************************)
(* C12: in serve mode, once main is past the key check with a key that is  *)
(* not 64 hex digits (not valid hex, or not 32 bytes) it has returned an   *)
(* error, and onion_service_from_sk was not called: no service launched,   *)
(* no registry entry, no request taken; a service exists only if no key    *)
(* was given or the key decoded to exactly 32 bytes.                       *)
(***************************************************************************)
C12_KeyValidation ==
    /\ proc.command = "serve" /\ proc.key.some /\ ~WellFormedKey(proc.key.v) =>
          /\ proc.pc \in {"bootstrap", "match", "returned"}
          /\ proc.pc = "returned" => proc.result # "none"
          /\ svc[1].main = "idle"
          /\ registry.map = <<>>
          /\ \A r \in Reqs : req[r].st = "none"
    /\ svc[1].main # "idle" =>
          /\ proc.pc = "serve"
          /\ proc.result = "none"
          /\ svc[1].key = proc.key.some
          /\ proc.key.some => WellFormedKey(proc.key.v) /\ Len(proc.secret.v) = KEY_BYTES
          /\ ~proc.key.some => proc.secret = None

\* a key of 66 hex digits (33 bytes) was refused and main has returned
C12_Witness ==
    /\ proc.pc = "returned"
    /\ proc.key.some
    /\ Len(proc.key.v) = 2 * KEY_BYTES + 2
    /\ hex_decode(proc.key.v).ok
    /\ proc.result = "Key must be exactly 32 bytes (64 hex chars)"
    /\ svc[1].main = "idle"

\* a is a prefix of b
IsPrefix(a, b) == Len(a) <= Len(b) /\ a = SubSeq(b, 1, Len(a))

(***************************************************************************)
(* C13: in every reachable state of a server bridge the bytes written to   *)
(* the network stream are a prefix of the bytes read from the PTY, and the *)
(* bytes written to the PTY are a prefix of the bytes read from the        *)
(* network stream: nothing is reordered, duplicated or skipped.            *)
(***************************************************************************)
C13_Fifo ==
    /\ IsPrefix(conn[1].netWritten, Bytes(1, conn[1].ptyRead))
    /\ IsPrefix(conn[1].ptyWritten, Bytes(1, conn[1].netRead))

\* in both directions a second chunk is on its way while the first one
\* has been written
C13_Witness ==
    /\ conn[1].netWritten = <<1>>
    /\ conn[1].ptyOut = << <<2>> >>
    /\ conn[1].ptyWritten = <<1>>
    /\ conn[1].wrBuf = <<2>>

(* ------------------- calls of get_onion_address ------------------- *)
NextAddress == \E k \in PublicKeys : call_get_onion_address(k)

SpecAddress == Init /\ [][NextAddress]_vars

\* the 5-bit value of a character of the lower-case alphabet
CharValue(ch) == (CHOOSE k \in 1..32 : LOWER_ALPHABET[k] = ch) - 1

\* bit j (1 is the highest) of the bit string the characters spell
BitAt(str, j) ==
    LET v == CharValue(str[(j - 1) \div 5 + 1])
        shift == 4 - ((j - 1) % 5)
    IN  (v \div (2 ^ shift)) % 2

\* base32 decoding of a lower-case string: every full group of 8 bits
base32_decode(str) ==
    [i \in 1..((5 * Len(str)) \div 8) |->
       LET bit(k) == BitAt(str, 8 * (i - 1) + k)
       IN  128 * bit(1) + 64 * bit(2) + 32 * bit(3) + 16 * bit(4)
             + 8 * bit(5) + 4 * bit(6) + 2 * bit(7) + bit(8)]

(***************************************************************************)
(* C14: for a key of 32 bytes get_onion_address returns 56 characters of   *)
(* the lower-case base32 alphabet; they decode to 35 bytes of which the    *)
(* first 32 are the key, the next two the first two bytes of the hash over *)
(* ".onion checksum", the key and the byte 3, and the last is 3; and two   *)
(* calls with the same key return the same string.                         *)
(***************************************************************************)
C14_AddressStructure ==
    goa.pc = "returned" =>
      LET d == base32_decode(goa.out)
          h == Sha3_256(ONION_CHECKSUM \o goa.key \o <<3>>)
      IN  /\ Len(goa.key) = 32
          /\ Len(goa.out) = 56
          /\ \A i \in 1..Len(goa.out) : goa.out[i] \in Range(LOWER_ALPHABET)
          /\ Len(d) = 35
          /\ SubSeq(d, 1, 32) = goa.key
          /\ d[33] = h[1] /\ d[34] = h[2]
          /\ d[35] = 3
          /\ goa.prevKey = goa.key => goa.prevOut = goa.out

\* the key was used in two calls in a row, and its bytes are such that
\* the address has letters and digits
C14_Witness ==
    /\ goa.pc = "returned"
    /\ goa.key = PublicKey(255, 90, 128, 32)
    /\ goa.prevKey = goa.key
    /\ \E i, j \in 1..Len(goa.out) : goa.out[i] = "7" /\ goa.out[j] = "l"

\* The runtime schedules the serve task, and a pending accept() returns.
\* Nothing makes the status stream deliver an event: the announce task is
\* not fair.
FairLifecycle ==
    /\ SpecLifecycle
    /\ WF_vars(registry_lock(1) \/ registry_insert_begin(1) \/ registry_insert_end(1))
    /\ WF_vars(accept_loop_accepted(1))

(***************************************************************************)
(* C15: whatever the announce task does, also if no status event ever      *)
(* arrives, a launched service goes on to register its handle; while the   *)
(* announce task waits, the serve task can take the lock, take the next    *)
(* request and finish an accept; and no step of the announce task changes  *)
(* the serve task or a request.                                            *)
(***************************************************************************)
C15_AnnounceNeverBlocks ==
    /\ svc[1].main = "launched" ~> Registered(1)
    /\ [](svc[1].serve = "lock" /\ registry.lock = 0 => ENABLED registry_lock(1))
    /\ [](svc[1].serve = "select" /\ ~svc[1].streamEnded /\ FreeReq # {}
            => ENABLED accept_loop_request(1))
    /\ [](svc[1].serve = "accept" => ENABLED accept_loop_accepted(1))
    /\ [][svc[1].ann = "wait" /\ svc[1].ann' = "done" =>
            /\ svc[1].serve' = svc[1].serve
            /\ req' = req /\ registry' = registry]_vars

\* the announce task still waits, nothing was announced, and the service
\* has accepted a request for SHELL_PORT
C15_Witness ==
    /\ svc[1].ann = "wait"
    /\ svc[1].announced = 0
    /\ ~svc[1].sawReachable
    /\ \E r \in Reqs : req[r].st = "accepted" /\ req[r].port = SHELL_PORT

(* ---- one bridge under load: an endpoint delivers more chunks than a ---- *)
(* ---- queue holds, one byte a read, and only one endpoint delivers   ---- *)
PressureBytes == CHANNEL_CAPACITY + MaxBytes

NextPressure ==
    \/ ConnControl(1)
    \/ /\ conn[1].netRead = 0
       /\ pty_reader_read(1, PressureBytes)
       /\ conn'[1].ptyRead = conn[1].ptyRead + 1
    \/ pty_reader_send(1)
    \/ pty_to_stream_recv(1)
    \/ pty_to_stream_write(1)
    \/ pty_to_stream_flush(1)
    \/ /\ conn[1].ptyRead = 0
       /\ stream_to_pty_read(1, PressureBytes)
       /\ conn'[1].netRead = conn[1].netRead + 1
    \/ stream_to_pty_send(1)
    \/ pty_writer_recv(1)
    \/ pty_writer_write(1)

SpecPressure == InitBridge /\ [][NextPressure]_vars

\* the chunks of a queue, end to end
RECURSIVE Flatten(_)
Flatten(q) == IF q = <<>> THEN <<>> ELSE Head(q) \o Flatten(Tail(q))

(***************************************************************************)
(* C16: neither queue of a bridge ever holds more than 64 chunks; a        *)
(* producer that holds a chunk cannot send while its queue holds 64 and    *)
(* the consumer is alive, and can send as soon as the queue holds fewer;   *)
(* a send ends without the chunk in the queue only if the consumer is gone *)
(* or the sending task was cancelled; and while producer and consumer are  *)
(* alive every byte read is in the producer's hand, in the queue, in the   *)
(* consumer's hand or written.                                             *)
(***************************************************************************)
C16_Backpressure ==
    /\ [](Len(conn[1].ptyOut) <= CHANNEL_CAPACITY)
    /\ [](Len(conn[1].streamIn) <= CHANNEL_CAPACITY)
    /\ [](conn[1].rd = "send" /\ ~PtyOutRxDropped(conn[1]) =>
            (ENABLED pty_reader_send(1) <=> Len(conn[1].ptyOut) < CHANNEL_CAPACITY))
    /\ [](conn[1].s2p = "send" /\ ~StreamInRxDropped(conn[1]) =>
            (ENABLED stream_to_pty_send(1) <=> Len(conn[1].streamIn) < CHANNEL_CAPACITY))
    /\ [][conn[1].rd = "send" /\ conn'[1].rd # "send" =>
            \/ PtyOutRxDropped(conn[1])
            \/ conn'[1].ptyOut = Append(conn[1].ptyOut, conn[1].rdBuf)]_vars
    /\ [][conn[1].s2p = "send" /\ conn'[1].s2p # "send" =>
            \/ StreamInRxDropped(conn[1])
            \/ conn'[1].s2p = "aborted"
            \/ conn'[1].streamIn = Append(conn[1].streamIn, conn[1].s2pBuf)]_vars
    /\ [](conn[1].rd \in {"read", "send"} /\ conn[1].p2s \in {"recv", "write", "flush"} =>
            Bytes(1, conn[1].ptyRead) =
              conn[1].netWritten \o conn[1].p2sBuf \o Flatten(conn[1].ptyOut) \o conn[1].rdBuf)
    /\ [](conn[1].s2p \in {"read", "send"} /\ conn[1].wr \in {"recv", "write"} =>
            Bytes(1, conn[1].netRead) =
              conn[1].ptyWritten \o conn[1].wrBuf \o Flatten(conn[1].streamIn) \o conn[1].s2pBuf)

\* the pty_out queue holds 64 chunks, the PTY reader holds the next one
\* and pty_to_stream, alive, has written none yet
C16_Witness ==
    /\ Len(conn[1].ptyOut) = CHANNEL_CAPACITY
    /\ conn[1].rd = "send"
    /\ conn[1].rdBuf # <<>>
    /\ conn[1].p2s = "recv"
    /\ conn[1].netWritten = <<>>

(***************************************************************************)
(* C17: whenever the shell of a bridged connection has been killed by the  *)
(* handler, both directions of the bridge have finished: neither           *)
(* stream_to_pty nor pty_to_stream is still running (the two blocking      *)
(* threads are not even counted).                                          *)
(***************************************************************************)
C17_KillAfterBothDirections ==
    conn[1].outcome = "ok" /\ conn[1].child = "killed" =>
      Finished(conn[1].s2p) /\ Finished(conn[1].p2s)

\* The runtime schedules the task that runs connect, so a select! with a
\* finished JoinHandle returns. Nothing makes stdin or the network deliver
\* or close.
FairClient == SpecClient /\ WF_vars(run_session_select)

(***************************************************************************)
(* C18: once a leg of the client bridge has ended (end of input, escape    *)
(* byte, or a failed read, write or flush) run_session eventually returns; *)
(* when it has, the leg whose branch fired had ended and abort() was       *)
(* called on the other, and on none before; the result of a session is Ok  *)
(* whatever ended the leg; a failed operation ends its leg in the same     *)
(* step, and a leg that has ended reads and writes nothing more.           *)
(***************************************************************************)
C18_SessionEndsOk ==
    /\ (cli.pc = "session" /\ (cli.s2nWhy # "none" \/ cli.n2oWhy # "none"))
          ~> cli.pc = "returned"
    /\ [](cli.pc = "session" => ~cli.s2nAbort /\ ~cli.n2oAbort)
    /\ [](cli.sel = "stdin_to_net" =>
            cli.s2nWhy # "none" /\ cli.n2oAbort /\ ~cli.s2nAbort)
    /\ [](cli.sel = "net_to_stdout" =>
            cli.n2oWhy # "none" /\ cli.s2nAbort /\ ~cli.n2oAbort)
    /\ [](cli.pc = "returned" /\ cli.enabled > 0 => cli.sel # "none" /\ cli.result = "ok")
    /\ [][cli.s2nWhy # "none" =>
            /\ cli'.s2nWhy = cli.s2nWhy
            /\ cli'.netOut = cli.netOut
            /\ cli'.stdinReads = cli.stdinReads]_vars
    /\ [][cli.n2oWhy # "none" =>
            /\ cli'.n2oWhy = cli.n2oWhy
            /\ cli'.netReads = cli.netReads
            /\ cli'.stdoutOut = cli.stdoutOut]_vars
    /\ [](cli.s2nWhy # "none" <=> cli.s2n \in {"done", "panicked"})
    /\ [](cli.n2oWhy # "none" <=> cli.n2o \in {"done", "panicked"})

\* a write to the network failed after a chunk had gone through, the other
\* leg was cancelled while it waited for the network, and the session
\* returned Ok
C18_Witness ==
    /\ cli.pc = "returned"
    /\ cli.result = "ok"
    /\ cli.sel = "stdin_to_net"
    /\ cli.s2nWhy = "write_err"
    /\ Len(cli.stdinReads) = 2
    /\ cli.n2o = "aborted"
    /\ cli.n2oWhy = "none"

(***************************************************************************)
(* C19: a service started in forward mode never runs the accept loop: each *)
(* request it takes goes to the proxy, none is filtered, accepted or shut  *)
(* down by the serve task, and no handler or shell exists; a service       *)
(* started in direct-shell mode never hands a request to the proxy; and    *)
(* the mode of a launched service never changes.                           *)
(***************************************************************************)
C19_PoliciesExclusive ==
    /\ [](svc[1].forward =>
            /\ svc[1].serve \notin {"select", "accept"}
            /\ \A r \in Reqs :
                 /\ req[r].st \in {"none", "forwarded"}
                 /\ req[r].acceptCalls = 0 /\ req[r].shutdownCalls = 0
                 /\ conn[r].hpc = "none" /\ conn[r].spawned = 0)
    /\ [](~svc[1].forward =>
            /\ svc[1].serve # "forward"
            /\ \A r \in Reqs : req[r].st # "forwarded")
    /\ [][svc[1].main # "idle" => svc[1].forward' = svc[1].forward]_vars

\* a forward-mode service has handed the proxy a request that is not for
\* SHELL_PORT and a Begin for SHELL_PORT
C19_Witness ==
    /\ svc[1].forward
    /\ \E r1, r2 \in Reqs :
         /\ req[r1].st = "forwarded" /\ req[r1].port # SHELL_PORT
         /\ req[r2].st = "forwarded" /\ req[r2].port = SHELL_PORT /\ req[r2].begin

(***************************************************************************)
(* C20: once the handle of a service is cancelled, no step calls accept on *)
(* a further stream request, whether the request was already pending when  *)
(* the handle was cancelled or not.                                        *)
(***************************************************************************)
C20_NoAcceptAfterCancel ==
    [][svc[1].cancelled =>
         \A r \in Reqs : req'[r].acceptCalls = req[r].acceptCalls]_vars

(***************************************************************************)
(* C21: the serve task of a direct-shell service is left only by a step    *)
(* taken with the handle cancelled; after the request stream has ended the *)
(* task is still in its select!, where it takes no request and, as long as *)
(* the handle is not cancelled, has no step at all; so a task whose handle *)
(* is never cancelled never exits.                                         *)
(***************************************************************************)
C21_LoopExitsOnlyByCancel ==
    /\ [][~svc[1].forward /\ svc[1].serve # "exited" /\ svc[1].serve' = "exited"
            => svc[1].cancelled /\ svc[1].serve = "select"]_vars
    /\ [](~svc[1].forward /\ svc[1].streamEnded =>
            /\ svc[1].serve \in {"select", "exited"}
            /\ ~ENABLED accept_loop_request(1)
            /\ svc[1].serve = "select" /\ ~svc[1].cancelled =>
                  ~ENABLED accept_loop_cancelled(1) /\ ~ENABLED accept_loop_accepted(1))
    /\ ([]~svc[1].cancelled) => [](svc[1].forward \/ svc[1].serve # "exited")

\* the request stream of a direct-shell service has ended after a request
\* was accepted, the handle is not cancelled, and the serve task waits
C21_Witness ==
    /\ ~svc[1].forward
    /\ svc[1].streamEnded
    /\ ~svc[1].cancelled
    /\ svc[1].serve = "select"
    /\ \E r \in Reqs : req[r].st = "accepted"

(***************************************************************************)
(* C22: when pty_to_stream has completed without a failed write or flush,  *)
(* so through the end of its queue, the PTY reader has ended, the queue is *)
(* empty and every byte the PTY reader read has been written to the        *)
(* network stream and covered by a flush; in particular this holds         *)
(* whenever the bridge has returned through the pty_to_stream branch.      *)
(***************************************************************************)
C22_PtyOutputDrained ==
    /\ conn[1].p2s = "done" /\ ~conn[1].netFail =>
          /\ conn[1].rd = "done" /\ conn[1].ptyEnd
          /\ conn[1].ptyOut = <<>> /\ conn[1].p2sBuf = <<>>
          /\ conn[1].netWritten = Bytes(1, conn[1].ptyRead)
          /\ conn[1].netFlushed = conn[1].ptyRead
    /\ conn[1].hpc = "returned" /\ conn[1].sel = "pty_to_stream" => conn[1].p2s = "done"

\* the PTY delivered two chunks and closed, the network stayed open, and
\* the bridge returned through the pty_to_stream branch
C22_Witness ==
    /\ conn[1].hpc = "returned"
    /\ conn[1].sel = "pty_to_stream"
    /\ ~conn[1].netFail
    /\ ~conn[1].netEnd
    /\ conn[1].ptyRead = 2
    /\ conn[1].netWritten = <<1, 2>>
    /\ conn[1].netFlushed = 2

(***************************************************************************)
(* C23: whenever the shell has been killed after the network side closed,  *)
(* and the PTY writer is alive (no write to the PTY failed), no chunk read *)
(* from the network is still in the stream_in queue or in the writer's     *)
(* hand: every byte read from the network has been written to the PTY.     *)
(***************************************************************************)
C23_NetInputDelivered ==
    /\ conn[1].child = "killed"
    /\ conn[1].sel = "stream_to_pty"
    /\ conn[1].netEnd
    /\ conn[1].wr \in {"recv", "write"}
    => /\ conn[1].streamIn = <<>> /\ conn[1].wrBuf = <<>>
       /\ conn[1].ptyWritten = Bytes(1, conn[1].netRead)

\* the chunks in front of the first chunk that holds 0x04
RECURSIVE BeforeEscape(_)
BeforeEscape(reads) ==
    IF reads = <<>> \/ ESCAPE \in Range(Head(reads))
      THEN <<>>
      ELSE <<Head(reads)>> \o BeforeEscape(Tail(reads))

FairTeardown ==
    /\ FairBridge
    /\ WF_vars(conn[1].child = "killed" /\ pty_reader_eof(1))

\* a task that was never spawned, or has ended
Terminated(pc) == pc \in {"none", "done", "aborted"}

C26_LastWriterWins ==
    /\ [](\A k \in DOMAIN registry.map :
            /\ k # <<>> /\ k[Len(k)] # ".onion"
            /\ registry.map[k] \in Services)
    /\ [][DOMAIN registry.map \subseteq DOMAIN registry'.map]_vars
    /\ [][\A s \in Services :
            svc[s].serve = "store" /\ svc'[s].serve # "store" =>
              registry'.map =
                [k \in DOMAIN registry.map \cup {RegistryKey(svc[s].addr)} |->
                   IF k = RegistryKey(svc[s].addr) THEN s ELSE registry.map[k]]]_vars
    /\ [][registry'.map # registry.map => \E s \in Services : svc[s].serve = "store"]_vars
    /\ [][(\E s \in Services : svc'[s].cancelled # svc[s].cancelled)
            => registry' = registry]_vars
    /\ [](obs.pc = "got" =>
            \A s \in obs.before : RegistryKey(svc[s].addr) = obs.key => obs.result # 0)

\* two services registered under the same address, the second replaced
\* the handle of the first and was cancelled, and a lookup started
\* afterwards has found the handle of the second
C26_Witness ==
    /\ svc[1].addr = svc[2].addr
    /\ Registered(1) /\ Registered(2)
    /\ svc[2].cancelled
    /\ Cardinality(DOMAIN registry.map) = 1
    /\ obs.pc = "got"
    /\ obs.before = {1, 2}
    /\ obs.result = 2

====
